---- MODULE Spec2Model ----
(***************************************************************************)
(* Model of app/services/astronomy.py: the lazily loaded, process-wide     *)
(* Skyfield handle (ts, earth, moon, sun), the Moon phase by the ephemeris *)
(* and by the synodic-cycle fallback, and the hourly moonrise/moonset      *)
(* scan.                                                                   *)
(*                                                                         *)
(* Numbers are fixed point.  An angle is an integer count of millionths of *)
(* a degree and stands for the double nearest to it; where the code's      *)
(* float falls between two millionths the angle is a pair <<a, b>>, a      *)
(* millionths and b units of 1e-12 degree.  A reported illumination or     *)
(* phase_angle (round(x, 1)) is an integer count of tenths, rounded as     *)
(* Python rounds the double.  A datetime is a pair <<m, f>>: m whole       *)
(* minutes and f units of 1e-7 minute (6 microseconds) elapsed since the   *)
(* reference new moon of 2000-01-06T18:14; the pairs keep every number     *)
(* below 2^31.                                                             *)
(*                                                                         *)
(* Also modelled: register_user (app/auth.py) over the users table and     *)
(* ensure_events_available (app/services/event_loader.py) over the events  *)
(* table, each as the steps of concurrent request threads.                 *)
(***************************************************************************)
EXTENDS Integers, Sequences, FiniteSets, Bags

(***************************************************************************)
(* Bounds of the model.                                                    *)
(***************************************************************************)
\* ephemeris load attempts in one behaviour
MaxLoads == 3
\* _initialize_skyfield calls of one thread in the threaded specification
MaxCalls == 2
\* the timestamps tried lie DaysBack days before to DaysAhead days after the epoch
DaysBack == 3
DaysAhead == 30
\* elongations the backend may report: ElongationStep * (0 .. MaxElongationIndex)
MaxElongationIndex == 47
\* sign changes in the 24 altitude samples of one day
MaxCrossings == 3
\* calendar days (counted from 2000-01-06) asked of get_moon_rise_set: 0 .. MaxDay
MaxDay == 1

(***************************************************************************)
(* Values.                                                                 *)
(***************************************************************************)
\* Python's None for ts, earth, moon, sun; a loaded object is the positive
\* number of the load attempt that created it.
None == 0
\* a moonrise or moonset that is None; an instant is <<day, hour>>
Absent == <<>>

Threads == {1, 2}

\* what the data source does when a load is attempted: both loads succeed,
\* load('de421.bsp') raises OSError, load.timescale() raises OSError, or one
\* of the two raises an exception that is not an OSError (a ValueError for a
\* file that is not what it should be), which the except clause of
\* astronomy.py:45 does not catch
LoadOutcomes ==
    {"ok", "fail_ephemeris", "fail_timescale", "raise_ephemeris", "raise_timescale"}

VARIABLES
    ts, earth, moon, sun,   \* the module's cached Skyfield objects
    loads,                  \* load attempts made so far
    date,                   \* the timestamp the caller passes
    location,               \* the <<latitude, longitude>> the caller passes
    elongation,             \* the Sun-Moon separation the backend reports
    altitude,               \* the backend's 24 hourly altitude samples
    call,                   \* the last completed call and how it went
    phase_result,           \* what the last call returned, if get_moon_phase
    rise_set_result,        \* what the last call returned, if get_moon_rise_set
    pc, ephemeris, ret, ncalls,  \* threads inside _initialize_skyfield
    visibility,             \* the last calculate_visibility_for_latvia call
    next_full_moon,         \* the last get_next_full_moon call
    users, reg,             \* the users table; threads inside register_user
    events,                 \* the events table, a bag of rows
    seeding,                \* threads inside ensure_events_available
    overlapped              \* two ensure_events_available calls have run at once

vars == <<ts, earth, moon, sun, loads, date, location, elongation, altitude, call,
          phase_result, rise_set_result, pc, ephemeris, ret, ncalls,
          visibility, next_full_moon, users, reg, events, seeding, overlapped>>

\* the variables of the operations outside the three calls and the threads below
others == <<visibility, next_full_moon, users, reg, events, seeding, overlapped>>

Handle == [ts |-> ts, earth |-> earth, moon |-> moon, sun |-> sun]

\* astronomy.py:32, the test that guards the cached objects
AllSet(h) == h.ts # None /\ h.earth # None /\ h.moon # None /\ h.sun # None

AllUnset(h) == h.ts = None /\ h.earth = None /\ h.moon = None /\ h.sun = None

(***************************************************************************)
(* _initialize_skyfield, run to completion by one caller.  h is the handle *)
(* before the call, outcome what the data source does if a load is         *)
(* attempted, n the identity of the objects a load creates.  The result    *)
(* carries the handle after the call, the return value, and whether a load *)
(* was attempted.                                                          *)
(***************************************************************************)
\* variant: no guard, every call loads
initialize_skyfield_always_loads(h, outcome, n) ==
    IF outcome = "raise_ephemeris"
    THEN [handle |-> h, ret |-> FALSE, attempted |-> TRUE, raised |-> TRUE]
    ELSE IF outcome = "fail_ephemeris"
    THEN [handle |-> h, ret |-> FALSE, attempted |-> TRUE, raised |-> FALSE]
    ELSE IF outcome \in {"fail_timescale", "raise_timescale"}
    THEN [handle |-> [ts |-> h.ts, earth |-> n, moon |-> n, sun |-> n],
          ret |-> FALSE, attempted |-> TRUE, raised |-> outcome = "raise_timescale"]
    ELSE [handle |-> [ts |-> n, earth |-> n, moon |-> n, sun |-> n],
          ret |-> TRUE, attempted |-> TRUE, raised |-> FALSE]

\* ret is the value returned, FALSE also when the call raises instead
initialize_skyfield(h, outcome, n) ==
    IF AllSet(h)
    THEN [handle |-> h, ret |-> TRUE, attempted |-> FALSE, raised |-> FALSE]
    ELSE IF outcome = "raise_ephemeris"
    THEN [handle |-> h, ret |-> FALSE, attempted |-> TRUE, raised |-> TRUE]
    ELSE IF outcome = "fail_ephemeris"
    THEN [handle |-> h, ret |-> FALSE, attempted |-> TRUE, raised |-> FALSE]
    ELSE IF outcome \in {"fail_timescale", "raise_timescale"}
    THEN [handle |-> [ts |-> h.ts, earth |-> n, moon |-> n, sun |-> n],
          ret |-> FALSE, attempted |-> TRUE, raised |-> outcome = "raise_timescale"]
    ELSE [handle |-> [ts |-> n, earth |-> n, moon |-> n, sun |-> n],
          ret |-> TRUE, attempted |-> TRUE, raised |-> FALSE]

(***************************************************************************)
(* Arithmetic of the phase formulas.  The backend's separation is a double *)
(* e; the model's e is the count of millionths of a degree whose nearest   *)
(* double it is.  The fallback's elongation is carried to 1e-12 degree as  *)
(* <<a, b>>: a millionths of a degree and b / Micro of one more.           *)
(***************************************************************************)
Degree == 10 ^ 6

Micro == 10 ^ 6

\* 0.1 degree, the unit of round(x, 1)
Tenth == Degree \div 10

\* 22.5 degrees is 45 half degrees
HalfDegree == Degree \div 2

AngleLess(x, y) == x[1] < y[1] \/ (x[1] = y[1] /\ x[2] < y[2])

AngleAdd(x, y) == <<x[1] + y[1] + ((x[2] + y[2]) \div Micro), (x[2] + y[2]) % Micro>>

AngleSub(x, y) == <<x[1] - y[1] + ((x[2] - y[2]) \div Micro), (x[2] - y[2]) % Micro>>

\* the angle in [0, 360) that differs from x by whole turns, for x in [-360, 720)
AngleWrap(x) ==
    IF x[1] < 0 THEN AngleAdd(x, <<360 * Degree, 0>>)
    ELSE IF x[1] >= 360 * Degree THEN AngleSub(x, <<360 * Degree, 0>>)
    ELSE x

(***************************************************************************)
(* round(value, 1) of the double nearest to (2 * k + 1) / 20, a decimal    *)
(* tie between k and k + 1 tenths (astronomy.py:84, 128).  The double is   *)
(* m / 2^s with 2^52 <= m < 2^53; (2 * k + 1) * 2^(s - 2) mod 5 tells on   *)
(* which side of the tie it lies, and round() goes to that side; only a    *)
(* double that is the tie itself is rounded half to even.                  *)
(***************************************************************************)
\* j with 5 * 2^j <= 8 * (2 * k + 1) < 5 * 2^(j + 1): the value is in
\* [2^(j - 5), 2^(j - 4))
BinaryExponent(k) ==
    CHOOSE j \in 0..13 : 5 * (2 ^ j) <= 8 * (2 * k + 1) /\ 8 * (2 * k + 1) < 5 * (2 ^ (j + 1))

\* s - 2 = 55 - j, and 2^n mod 5 has period 4
TieSide(k) == ((2 * k + 1) * (2 ^ ((55 - BinaryExponent(k)) % 4))) % 5

RoundTie(k) ==
    LET side == TieSide(k)
    IN  IF side = 0 THEN (IF k % 2 = 0 THEN k ELSE k + 1)
        ELSE IF side <= 2 THEN k
        ELSE k + 1

\* round(e, 1) of the double nearest to e millionths of a degree, in tenths
Round1(e) ==
    LET k == e \div Tenth
        f == e % Tenth
    IN  IF 2 * f < Tenth THEN k
        ELSE IF 2 * f > Tenth THEN k + 1
        ELSE RoundTie(k)

\* round(x, 1) of an elongation <<a, b>>, in tenths
RoundAngle(x) ==
    IF x[2] = 0 THEN Round1(x[1])
    ELSE IF 2 * (x[1] % Tenth) < Tenth THEN x[1] \div Tenth
    ELSE (x[1] \div Tenth) + 1

(***************************************************************************)
(* round((1 - math.cos(math.radians(x))) / 2 * 100, 1) as a step function  *)
(* of the angle.  Entry j + 1 of IlluminationSteps is the angle, rounded   *)
(* down to 1e-12 degree, at which (1 - cos) / 2 * 100 passes j / 10 + 0.05 *)
(* per cent, for j = 0 .. 499 (the steps of the first quadrant; no angle   *)
(* of the grid is a step itself).  The steps of the second quadrant are    *)
(* the mirror images, cos(180 - x) = -cos(x).                              *)
(***************************************************************************)
IlluminationSteps == <<
    <<2562558, 733123>>, <<4439222, 274842>>, <<5731967, 965197>>, <<6783288, 906233>>,
    <<7692812, 451559>>, <<8506146, 953477>>, <<9248704, 791028>>, <<9936367, 72140>>,
    <<10579844, 96122>>, <<11186763, 880959>>, <<11762787, 85494>>, <<12312251, 505818>>,
    <<12838568, 140984>>, <<13344476, 714033>>, <<13832217, 183463>>, <<14303648, 721630>>,
    <<14760334, 581469>>, <<15203604, 93293>>, <<15634598, 901019>>, <<16054308, 74274>>,
    <<16463595, 202270>>, <<16863219, 599788>>, <<17253853, 117357>>, <<17636093, 620448>>,
    <<18010475, 910494>>, <<18377480, 657164>>, <<18737541, 767367>>, <<19091052, 512860>>,
    <<19438370, 662868>>, <<19779822, 812305>>, <<20115708, 54496>>, <<20446301, 115779>>,
    <<20771855, 45328>>, <<21092603, 534956>>, <<21408762, 929275>>, <<21720533, 975263>>,
    <<22028103, 351376>>, <<22331645, 9221>>, <<22631321, 355141>>, <<22927284, 294430>>,
    <<23219676, 157229>>, <<23508630, 522063>>, <<23794272, 950536>>, <<24076721, 644604>>,
    <<24356088, 36182>>, <<24632477, 317401>>, <<24905988, 918659>>, <<25176716, 940609>>,
    <<25444750, 545397>>, <<25710174, 311752>>, <<25973068, 557924>>, <<26233509, 635957>>,
    <<26491570, 200356>>, <<26747319, 453798>>, <<27000823, 372266>>, <<27252144, 911650>>,
    <<27501344, 197658>>, <<27748478, 700653>>, <<27993603, 396855>>, <<28236770, 917176>>,
    <<28478031, 684842>>, <<28717434, 42805>>, <<28955024, 371859>>, <<29190847, 200285>>,
    <<29424945, 305736>>, <<29657359, 810043>>, <<29888130, 267523>>, <<30117294, 747322>>,
    <<30344889, 910291>>, <<30570951, 80819>>, <<30795512, 314027>>, <<31018606, 458686>>,
    <<31240265, 216181>>, <<31460519, 195825>>, <<31679397, 966793>>, <<31896930, 106932>>,
    <<32113143, 248657>>, <<32328064, 122162>>, <<32541718, 596121>>, <<32754131, 716067>>,
    <<32965327, 740597>>, <<33175330, 175557>>, <<33384161, 806348>>, <<33591844, 728467>>,
    <<33798400, 376410>>, <<34003849, 551033>>, <<34208212, 445482>>, <<34411508, 669769>>,
    <<34613757, 274092>>, <<34814976, 770966>>, <<35015185, 156248>>, <<35214399, 929115>>,
    <<35412638, 111059>>, <<35609916, 263964>>, <<35806250, 507311>>, <<36001656, 534564>>,
    <<36196149, 628787>>, <<36389744, 677533>>, <<36582456, 187047>>, <<36774298, 295819>>,
    <<36965284, 787525>>, <<37155429, 103393>>, <<37344744, 354014>>, <<37533243, 330646>>,
    <<37720938, 516013>>, <<37907842, 94651>>, <<38093965, 962808>>, <<38279321, 737927>>,
    <<38463920, 767732>>, <<38647774, 138937>>, <<38830892, 685599>>, <<39013286, 997129>>,
    <<39194967, 425982>>, <<39375944, 95041>>, <<39556226, 904700>>, <<39735825, 539679>>,
    <<39914749, 475570>>, <<40093007, 985129>>, <<40270610, 144326>>, <<40447564, 838170>>,
    <<40623880, 766309>>, <<40799566, 448430>>, <<40974630, 229445>>, <<41149080, 284501>>,
    <<41322924, 623799>>, <<41496171, 97240>>, <<41668827, 398908>>, <<41840901, 71389>>,
    <<42012399, 509941>>, <<42183329, 966517>>, <<42353699, 553646>>, <<42523515, 248185>>,
    <<42692783, 894937>>, <<42861512, 210153>>, <<43029706, 784905>>, <<43197374, 88363>>,
    <<43364520, 470944>>, <<43531152, 167372>>, <<43697275, 299630>>, <<43862895, 879820>>,
    <<44028019, 812929>>, <<44192652, 899504>>, <<44356800, 838250>>, <<44520469, 228535>>,
    <<44683663, 572826>>, <<44846389, 279041>>, <<45008651, 662837>>, <<45170455, 949822>>,
    <<45331807, 277697>>, <<45492710, 698341>>, <<45653171, 179827>>, <<45813193, 608380>>,
    <<45972782, 790277>>, <<46131943, 453689>>, <<46290680, 250473>>, <<46448997, 757906>>,
    <<46606900, 480377>>, <<46764392, 851017>>, <<46921479, 233302>>, <<47078163, 922589>>,
    <<47234451, 147625>>, <<47390345, 72006>>, <<47545849, 795599>>, <<47700969, 355916>>,
    <<47855707, 729467>>, <<48010068, 833058>>, <<48164056, 525062>>, <<48317674, 606660>>,
    <<48470926, 823040>>, <<48623816, 864568>>, <<48776348, 367930>>, <<48928524, 917238>>,
    <<49080350, 45113>>, <<49231827, 233738>>, <<49382959, 915880>>, <<49533751, 475892>>,
    <<49684205, 250684>>, <<49834324, 530670>>, <<49984112, 560695>>, <<50133572, 540935>>,
    <<50282707, 627773>>, <<50431520, 934659>>, <<50580015, 532941>>, <<50728194, 452683>>,
    <<50876060, 683459>>, <<51023617, 175127>>, <<51170866, 838585>>, <<51317812, 546510>>,
    <<51464457, 134080>>, <<51610803, 399676>>, <<51756854, 105565>>, <<51902611, 978576>>,
    <<52048079, 710753>>, <<52193259, 959992>>, <<52338155, 350666>>, <<52482768, 474238>>,
    <<52627101, 889854>>, <<52771158, 124926>>, <<52914939, 675701>>, <<53058449, 7817>>,
    <<53201688, 556849>>, <<53344660, 728837>>, <<53487367, 900806>>, <<53629812, 421276>>,
    <<53771996, 610759>>, <<53913922, 762242>>, <<54055593, 141665>>, <<54197009, 988385>>,
    <<54338175, 515631>>, <<54479091, 910947>>, <<54619761, 336631>>, <<54760185, 930160>>,
    <<54900367, 804606>>, <<55040309, 49044>>, <<55180011, 728953>>, <<55319477, 886610>>,
    <<55458709, 541465>>, <<55597708, 690527>>, <<55736477, 308722>>, <<55875017, 349259>>,
    <<56013330, 743980>>, <<56151419, 403705>>, <<56289285, 218574>>, <<56426930, 58372>>,
    <<56564355, 772861>>, <<56701564, 192095>>, <<56838557, 126729>>, <<56975336, 368334>>,
    <<57111903, 689685>>, <<57248260, 845064>>, <<57384409, 570547>>, <<57520351, 584280>>,
    <<57656088, 586766>>, <<57791622, 261129>>, <<57926954, 273383>>, <<58062086, 272696>>,
    <<58197019, 891642>>, <<58331756, 746458>>, <<58466298, 437284>>, <<58600646, 548412>>,
    <<58734802, 648521>>, <<58868768, 290907>>, <<59002545, 13719>>, <<59136134, 340178>>,
    <<59269537, 778799>>, <<59402756, 823609>>, <<59535792, 954357>>, <<59668647, 636728>>,
    <<59801322, 322541>>, <<59933818, 449955>>, <<60066137, 443664>>, <<60198280, 715096>>,
    <<60330249, 662597>>, <<60462045, 671622>>, <<60593670, 114920>>, <<60725124, 352714>>,
    <<60856409, 732875>>, <<60987527, 591102>>, <<61118479, 251091>>, <<61249266, 24704>>,
    <<61379889, 212133>>, <<61510350, 102065>>, <<61640649, 971842>>, <<61770790, 87617>>,
    <<61900771, 704508>>, <<62030596, 66755>>, <<62160264, 407861>>, <<62289777, 950748>>,
    <<62419137, 907895>>, <<62548345, 481485>>, <<62677401, 863539>>, <<62806308, 236061>>,
    <<62935065, 771166>>, <<63063675, 631218>>, <<63192138, 968960>>, <<63320456, 927639>>,
    <<63448630, 641140>>, <<63576661, 234103>>, <<63704549, 822050>>, <<63832297, 511507>>,
    <<63959905, 400119>>, <<64087374, 576767>>, <<64214706, 121688>>, <<64341901, 106584>>,
    <<64468960, 594733>>, <<64595885, 641103>>, <<64722677, 292456>>, <<64849336, 587456>>,
    <<64975864, 556774>>, <<65102262, 223191>>, <<65228530, 601699>>, <<65354670, 699604>>,
    <<65480683, 516619>>, <<65606570, 44967>>, <<65732331, 269471>>, <<65857968, 167656>>,
    <<65983481, 709831>>, <<66108872, 859191>>, <<66234142, 571900>>, <<66359291, 797184>>,
    <<66484321, 477415>>, <<66609232, 548199>>, <<66734025, 938463>>, <<66858702, 570534>>,
    <<66983263, 360224>>, <<67107709, 216913>>, <<67232041, 43626>>, <<67356259, 737114>>,
    <<67480366, 187932>>, <<67604361, 280512>>, <<67728245, 893245>>, <<67852020, 898552>>,
    <<67975687, 162957>>, <<68099245, 547161>>, <<68222696, 906113>>, <<68346042, 89080>>,
    <<68469281, 939719>>, <<68592417, 296143>>, <<68715448, 990991>>, <<68838377, 851490>>,
    <<68961204, 699530>>, <<69083930, 351718>>, <<69206555, 619451>>, <<69329081, 308975>>,
    <<69451508, 221448>>, <<69573837, 153003>>, <<69696068, 894807>>, <<69818204, 233122>>,
    <<69940243, 949364>>, <<70062188, 820162>>, <<70184039, 617414>>, <<70305797, 108347>>,
    <<70427462, 55571>>, <<70549035, 217133>>, <<70670517, 346576>>, <<70791909, 192990>>,
    <<70913211, 501066>>, <<71034425, 11151>>, <<71155550, 459295>>, <<71276588, 577307>>,
    <<71397540, 92806>>, <<71518405, 729267>>, <<71639186, 206074>>, <<71759882, 238569>>,
    <<71880494, 538098>>, <<72001023, 812062>>, <<72121470, 763961>>, <<72241836, 93442>>,
    <<72362120, 496347>>, <<72482324, 664753>>, <<72602449, 287025>>, <<72722495, 47854>>,
    <<72842462, 628301>>, <<72962352, 705847>>, <<73082165, 954427>>, <<73201903, 44479>>,
    <<73321564, 642985>>, <<73441151, 413507>>, <<73560664, 16236>>, <<73680103, 108028>>,
    <<73799469, 342443>>, <<73918763, 369787>>, <<74037985, 837152>>, <<74157137, 388452>>,
    <<74276218, 664461>>, <<74395230, 302856>>, <<74514172, 938248>>, <<74633047, 202222>>,
    <<74751853, 723375>>, <<74870593, 127350>>, <<74989266, 36873>>, <<75107873, 71788>>,
    <<75226414, 849092>>, <<75344891, 982971>>, <<75463305, 84832>>, <<75581654, 763340>>,
    <<75699941, 624448>>, <<75818166, 271436>>, <<75936329, 304937>>, <<76054431, 322974>>,
    <<76172472, 920993>>, <<76290454, 691891>>, <<76408377, 226052>>, <<76526241, 111375>>,
    <<76644046, 933307>>, <<76761795, 274873>>, <<76879486, 716709>>, <<76997121, 837086>>,
    <<77114701, 211945>>, <<77232225, 414927>>, <<77349695, 17399>>, <<77467110, 588484>>,
    <<77584472, 695091>>, <<77701781, 901944>>, <<77819038, 771607>>, <<77936243, 864515>>,
    <<78053397, 739000>>, <<78170500, 951320>>, <<78287554, 55685>>, <<78404557, 604284>>,
    <<78521512, 147312>>, <<78638418, 232996>>, <<78755276, 407623>>, <<78872087, 215564>>,
    <<78988851, 199301>>, <<79105568, 899452>>, <<79222240, 854796>>, <<79338867, 602298>>,
    <<79455449, 677138>>, <<79571987, 612729>>, <<79688481, 940747>>, <<79804933, 191151>>,
    <<79921341, 892212>>, <<80037708, 570533>>, <<80154033, 751075>>, <<80270317, 957179>>,
    <<80386561, 710590>>, <<80502765, 531482>>, <<80618929, 938478>>, <<80735055, 448674>>,
    <<80851142, 577664>>, <<80967191, 839558>>, <<81083203, 747009>>, <<81199178, 811231>>,
    <<81315117, 542027>>, <<81431020, 447803>>, <<81546888, 35596>>, <<81662720, 811094>>,
    <<81778519, 278654>>, <<81894283, 941330>>, <<82010015, 300888>>, <<82125713, 857829>>,
    <<82241380, 111413>>, <<82357014, 559673>>, <<82472617, 699444>>, <<82588190, 26376>>,
    <<82703732, 34959>>, <<82819244, 218541>>, <<82934727, 69349>>, <<83050181, 78510>>,
    <<83165606, 736068>>, <<83281004, 531006>>, <<83396374, 951266>>, <<83511718, 483766>>,
    <<83627035, 614425>>, <<83742326, 828173>>, <<83857592, 608980>>, <<83972833, 439868>>,
    <<84088049, 802936>>, <<84203242, 179373>>, <<84318411, 49480>>, <<84433556, 892689>>,
    <<84548680, 187582>>, <<84663781, 411906>>, <<84778861, 42597>>, <<84893919, 555792>>,
    <<85008957, 426855>>, <<85123975, 130387>>, <<85238973, 140250>>, <<85353951, 929583>>,
    <<85468911, 970821>>, <<85583853, 735710>>, <<85698777, 695329>>, <<85813684, 320105>>,
    <<85928574, 79832>>, <<86043447, 443687>>, <<86158304, 880249>>, <<86273146, 857517>>,
    <<86387973, 842927>>, <<86502786, 303369>>, <<86617584, 705203>>, <<86732369, 514279>>,
    <<86847141, 195953>>, <<86961900, 215105>>, <<87076647, 36155>>, <<87191382, 123079>>,
    <<87306105, 939430>>, <<87420818, 948351>>, <<87535521, 612595>>, <<87650214, 394539>>,
    <<87764897, 756204>>, <<87879572, 159269>>, <<87994238, 65090>>, <<88108895, 934715>>,
    <<88223546, 228904>>, <<88338189, 408141>>, <<88452825, 932655>>, <<88567456, 262433>>,
    <<88682080, 857240>>, <<88796700, 176634>>, <<88911314, 679983>>, <<89025924, 826481>>,
    <<89140531, 75164>>, <<89255133, 884929>>, <<89369733, 714550>>, <<89484331, 22691>>,
    <<89598926, 267927>>, <<89713519, 908759>>, <<89828112, 403628>>, <<89942704, 210937>>
>>

\* the number of entries i in lo..hi of IlluminationSteps below the angle y
RECURSIVE StepsBelow(_, _, _)
StepsBelow(y, lo, hi) ==
    IF lo > hi THEN lo - 1
    ELSE LET mid == (lo + hi) \div 2
         IN  IF AngleLess(IlluminationSteps[mid], y)
             THEN StepsBelow(y, mid + 1, hi)
             ELSE StepsBelow(y, lo, mid - 1)

\* round((1 - cos(x)) / 2 * 100, 1) in tenths of a per cent, x in [0, 180]
LitTenths(x) ==
    IF x[1] < 90 * Degree \/ x = <<90 * Degree, 0>>
    THEN StepsBelow(x, 1, Len(IlluminationSteps))
    ELSE 2 * Len(IlluminationSteps)
         - StepsBelow(AngleSub(<<180 * Degree, 0>>, x), 1, Len(IlluminationSteps))

\* cos(x) = cos(360 - x)
Fold(x) ==
    IF AngleLess(<<180 * Degree, 0>>, x) THEN AngleSub(<<360 * Degree, 0>>, x) ELSE x

\* round((1 + cos(e)) / 2 * 100, 1) in tenths of a per cent (astronomy.py:106, 127)
PrimaryIllumination(e) == 2 * Len(IlluminationSteps) - LitTenths(Fold(<<e, 0>>))

\* round((1 - cos(x)) / 2 * 100, 1) in tenths of a per cent (astronomy.py:62, 83)
FallbackIllumination(x) == LitTenths(Fold(x))

PhaseNames == {"New Moon", "Waxing Crescent", "First Quarter", "Waxing Gibbous",
               "Full Moon", "Waning Gibbous", "Last Quarter", "Waning Crescent"}

\* variant: bins closed on the right
PrimaryPhaseName_right_closed(e) ==
    IF e <= 45 * Degree THEN "New Moon"
    ELSE IF e <= 90 * Degree THEN "Waxing Crescent"
    ELSE IF e <= 135 * Degree THEN "First Quarter"
    ELSE IF e <= 180 * Degree THEN "Waxing Gibbous"
    ELSE IF e <= 225 * Degree THEN "Full Moon"
    ELSE IF e <= 270 * Degree THEN "Waning Gibbous"
    ELSE IF e <= 315 * Degree THEN "Last Quarter"
    ELSE "Waning Crescent"

\* astronomy.py:108-123
PrimaryPhaseName(e) ==
    IF e < 45 * Degree THEN "New Moon"
    ELSE IF e < 90 * Degree THEN "Waxing Crescent"
    ELSE IF e < 135 * Degree THEN "First Quarter"
    ELSE IF e < 180 * Degree THEN "Waxing Gibbous"
    ELSE IF e < 225 * Degree THEN "Full Moon"
    ELSE IF e < 270 * Degree THEN "Waning Gibbous"
    ELSE IF e < 315 * Degree THEN "Last Quarter"
    ELSE "Waning Crescent"

\* variant: the fallback uses the bins of the ephemeris path
FallbackPhaseName_edge_bins(e) == PrimaryPhaseName(e)

\* astronomy.py:64-79
FallbackPhaseName(e) ==
    IF e < 45 * HalfDegree \/ e >= 675 * HalfDegree THEN "New Moon"
    ELSE IF e < 135 * HalfDegree THEN "Waxing Crescent"
    ELSE IF e < 225 * HalfDegree THEN "First Quarter"
    ELSE IF e < 315 * HalfDegree THEN "Waxing Gibbous"
    ELSE IF e < 405 * HalfDegree THEN "Full Moon"
    ELSE IF e < 495 * HalfDegree THEN "Waning Gibbous"
    ELSE IF e < 585 * HalfDegree THEN "Last Quarter"
    ELSE "Waning Crescent"

(***************************************************************************)
(* Times.  <<m, f>> is m + f / MinuteUnits minutes, 0 <= f < MinuteUnits.  *)
(***************************************************************************)
MinuteUnits == 10 ^ 7

\* cycle_days = 29.53058867 days = 42524.0476848 minutes (astronomy.py:55)
CycleLength == <<42524, 476848>>

\* known_new_moon, 2000-01-06T18:14, is minute 18 * 60 + 14 of its day
EpochMinuteOfDay == 18 * 60 + 14

TimeLeq(x, y) == x[1] < y[1] \/ (x[1] = y[1] /\ x[2] <= y[2])

TimeAdd(x, y) ==
    <<x[1] + y[1] + ((x[2] + y[2]) \div MinuteUnits), (x[2] + y[2]) % MinuteUnits>>

TimeSub(x, y) ==
    <<x[1] - y[1] + ((x[2] - y[2]) \div MinuteUnits), (x[2] - y[2]) % MinuteUnits>>

\* x * k for an integer k with |x[2] * k| < 2^31
TimeMul(x, k) ==
    <<x[1] * k + ((x[2] * k) \div MinuteUnits), (x[2] * k) % MinuteUnits>>

\* <<q, r>> with x = q * cycle + r and 0 <= r < cycle, for |x| < 4000 cycles:
\* the quotient of the whole minutes is q or next to it
CycleDivMod(x) ==
    LET q0 == x[1] \div CycleLength[1]
        q  == CHOOSE k \in {q0 - 1, q0, q0 + 1} :
                  /\ TimeLeq(TimeMul(CycleLength, k), x)
                  /\ ~TimeLeq(TimeMul(CycleLength, k + 1), x)
    IN  <<q, TimeSub(x, TimeMul(CycleLength, q))>>

\* elapsed % cycle: Python's % takes the sign of the divisor, so the result is
\* in [0, cycle) for a timestamp before the epoch too
CycleMod(x) == CycleDivMod(x)[2]

\* <<digits, rest>>: acc followed by the next n decimal digits of rem / cycle,
\* and what is left of rem
RECURSIVE CycleDigits(_, _, _)
CycleDigits(acc, rem, n) ==
    IF n = 0 THEN <<acc, rem>>
    ELSE LET d == CycleDivMod(TimeMul(rem, 10))
         IN  CycleDigits(acc * 10 + d[1], d[2], n - 1)

\* (r / cycle) * 360 for 0 <= r < cycle as an angle <<a, b>>, rounded down to
\* 1e-12 degree: the tens of degrees first, then seven and six more digits
CycleFractionDegrees(r) ==
    LET tens == CycleDivMod(TimeMul(r, 36))
        a == CycleDigits(tens[1], tens[2], 7)
        b == CycleDigits(0, a[2], 6)
    IN  <<a[1], b[1]>>

(***************************************************************************)
(* astronomy.py:58-61: the synthetic elongation of the fallback, a double  *)
(* obtained by four rounded operations and by % with the double nearest to *)
(* 29.53058867.  It differs from 360 * (elapsed mod cycle) / cycle by less *)
(* than 1e-12 degree, and by less than a tenth of that for each cycle      *)
(* elapsed; FloatError bounds the difference and the rounding down of      *)
(* CycleFractionDegrees.  Where a threshold of the code lies within the    *)
(* bound (at an exact sixteenth of the cycle; at a whole cycle, where the  *)
(* double can be 359.99999999999994) the code may be on either side: the   *)
(* elongations at both ends of the bound are kept.  At the epoch itself    *)
(* every operation is exact.                                               *)
(***************************************************************************)
Abs(n) == IF n < 0 THEN 0 - n ELSE n

FloatError(d) == <<0, 2 + (Abs(d[1]) \div CycleLength[1]) \div 10>>

FallbackElongations(d) ==
    LET x == CycleFractionDegrees(CycleMod(d))
    IN  IF d = <<0, 0>> THEN {x}
        ELSE {AngleWrap(AngleSub(x, FloatError(d))), x,
              AngleWrap(AngleAdd(x, FloatError(d)))}

\* astronomy.py:62-85, the dictionary built from the elongation
FallbackResult(x) ==
    [phase_name |-> FallbackPhaseName(x[1]),
     illumination |-> FallbackIllumination(x),
     phase_angle |-> RoundAngle(x)]

\* _fallback_moon_phase(date): the dictionaries it can return
fallback_moon_phase(d) == {FallbackResult(e) : e \in FallbackElongations(d)}

\* astronomy.py:106-129, the dictionary built from the elongation
PrimaryResult(e) ==
    [phase_name |-> PrimaryPhaseName(e),
     illumination |-> PrimaryIllumination(e),
     phase_angle |-> Round1(e)]

\* the value of a result variable before any call has returned one
NoPhase == [phase_name |-> "", illumination |-> 0, phase_angle |-> 0]

(***************************************************************************)
(* get_moon_phase(date), run to completion: the outcomes it can have.  h,  *)
(* outcome and n are as for initialize_skyfield, e is the separation the   *)
(* backend reports.  Using a cached object that is None raises             *)
(* (AttributeError on ts.utc, earth.at, or inside observe).                *)
(***************************************************************************)
get_moon_phase(h, d, outcome, n, e) ==
    LET init == initialize_skyfield(h, outcome, n)
    IN  IF init.raised
        THEN {[init |-> init, raised |-> TRUE, path |-> "none", result |-> NoPhase]}
        ELSE IF ~init.ret
        THEN {[init |-> init, raised |-> FALSE, path |-> "fallback", result |-> r] :
                  r \in fallback_moon_phase(d)}
        ELSE IF ~AllSet(init.handle)
        THEN {[init |-> init, raised |-> TRUE, path |-> "primary", result |-> NoPhase]}
        ELSE {[init |-> init, raised |-> FALSE, path |-> "primary",
               result |-> PrimaryResult(e)]}

(***************************************************************************)
(* get_moon_rise_set.                                                      *)
(***************************************************************************)
Hours == 24

\* date.year, date.month, date.day: the calendar day, counted from 2000-01-06
DayOf(d) == (d[1] + EpochMinuteOfDay) \div (24 * 60)

\* astronomy.py:166-175: times[hour + 1] = <<instant of the hour, altitude>>
SampleTimes(day, alt) == [i \in 1..Hours |-> << <<day, i - 1>>, alt[i] >>]

\* astronomy.py:177-188: the scan of the pairs i, i + 1 from pair i on
\* variant: a crossing is reported at the earlier sample's instant
RECURSIVE ScanCrossings_earlier_sample(_, _, _, _)
ScanCrossings_earlier_sample(times, i, moonrise, moonset) ==
    IF i > Len(times) - 1
    THEN [moonrise |-> moonrise, moonset |-> moonset]
    ELSE LET alt1 == times[i][2]
             alt2 == times[i + 1][2]
         IN  ScanCrossings_earlier_sample(times, i + 1,
                 IF alt1 < 0 /\ alt2 >= 0 THEN times[i][1] ELSE moonrise,
                 IF alt1 >= 0 /\ alt2 < 0 THEN times[i][1] ELSE moonset)

\* variant: the first crossing of each kind is kept
RECURSIVE ScanCrossings_first_wins(_, _, _, _)
ScanCrossings_first_wins(times, i, moonrise, moonset) ==
    IF i > Len(times) - 1
    THEN [moonrise |-> moonrise, moonset |-> moonset]
    ELSE LET alt1 == times[i][2]
             alt2 == times[i + 1][2]
         IN  ScanCrossings_first_wins(times, i + 1,
                 IF alt1 < 0 /\ alt2 >= 0 /\ moonrise = Absent
                 THEN times[i + 1][1] ELSE moonrise,
                 IF alt1 >= 0 /\ alt2 < 0 /\ moonset = Absent
                 THEN times[i + 1][1] ELSE moonset)

RECURSIVE ScanCrossings(_, _, _, _)
ScanCrossings(times, i, moonrise, moonset) ==
    IF i > Len(times) - 1
    THEN [moonrise |-> moonrise, moonset |-> moonset]
    ELSE LET alt1 == times[i][2]
             alt2 == times[i + 1][2]
         IN  ScanCrossings(times, i + 1,
                 IF alt1 < 0 /\ alt2 >= 0 THEN times[i + 1][1] ELSE moonrise,
                 IF alt1 >= 0 /\ alt2 < 0 THEN times[i + 1][1] ELSE moonset)

NoRiseSet == [moonrise |-> Absent, moonset |-> Absent]

\* get_moon_rise_set(latitude, longitude, date), run to completion; alt is the
\* altitude the backend reports for each hour of the day at that location
get_moon_rise_set(h, d, outcome, n, alt) ==
    LET init == initialize_skyfield(h, outcome, n)
    IN  IF init.raised
        THEN [init |-> init, raised |-> TRUE, path |-> "none", result |-> NoRiseSet]
        ELSE IF ~init.ret
        THEN [init |-> init, raised |-> FALSE, path |-> "unavailable",
              result |-> NoRiseSet]
        ELSE IF ~AllSet(init.handle)
        THEN [init |-> init, raised |-> TRUE, path |-> "scan", result |-> NoRiseSet]
        ELSE [init |-> init, raised |-> FALSE, path |-> "scan",
              result |-> ScanCrossings(SampleTimes(DayOf(d), alt), 1, Absent, Absent)]

(***************************************************************************)
(* get_next_full_moon.  The 30 get_moon_phase calls each acquire the       *)
(* ephemeris: the data source answers o to the loads of the first j        *)
(* iterations and "ok" to the later ones.  The backend's separation moves  *)
(* by one day of the mean cycle per iteration, from e on the first.        *)
(***************************************************************************)
SearchDays == 30

DailyMotion == CycleFractionDegrees(<<24 * 60, 0>>)[1]

SeparationOn(e, day_offset) == (e + day_offset * DailyMotion) % (360 * Degree)

\* astronomy.py:144
IsFullMoon(phase_info) ==
    phase_info.illumination > 99 * 10 /\ phase_info.phase_name = "Full Moon"

\* astronomy.py:140-147, from iteration day_offset on; n loads were made before
RECURSIVE SearchFullMoon(_, _, _, _, _, _, _, _)
SearchFullMoon(h, d, day_offset, o, j, n, e, paths) ==
    IF day_offset = SearchDays
    THEN {[returned |-> Absent, raised |-> FALSE, handle |-> h, loads |-> n,
           paths |-> paths]}
    ELSE LET check_date == TimeAdd(d, <<(24 * 60) * day_offset, 0>>)
             outcome == IF day_offset < j THEN o ELSE "ok"
         IN  UNION {
               LET m == IF p.init.attempted THEN n + 1 ELSE n
                   seen == paths \cup {p.path}
               IN  IF p.raised
                   THEN {[returned |-> Absent, raised |-> TRUE,
                          handle |-> p.init.handle, loads |-> m, paths |-> seen]}
                   ELSE IF IsFullMoon(p.result)
                   THEN {[returned |-> check_date, raised |-> FALSE,
                          handle |-> p.init.handle, loads |-> m, paths |-> seen]}
                   ELSE SearchFullMoon(p.init.handle, d, day_offset + 1, o, j, m,
                                       e, seen) :
               p \in get_moon_phase(h, check_date, outcome, n + 1,
                                    SeparationOn(e, day_offset))}

get_next_full_moon(h, d, o, j, n, e) == SearchFullMoon(h, d, 0, o, j, n, e, {})

(***************************************************************************)
(* calculate_visibility_for_latvia, run to completion: the outcomes it can *)
(* have.  o1 and o2 are what the data source does for the load of the      *)
(* get_moon_phase call and of the get_moon_rise_set call; d1 is the        *)
(* datetime.now() get_moon_phase reads (astronomy.py:94), d2 the one       *)
(* get_moon_rise_set reads after it (astronomy.py:156), and alt the        *)
(* altitudes the backend reports for Riga.  An exception of get_moon_phase *)
(* ends the function before get_moon_rise_set is called.                   *)
(***************************************************************************)
\* 56.9496 N 24.1052 E (astronomy.py:202-203), in ten-thousandths of a degree
Riga == <<569496, 241052>>

\* no dictionary returned
NoReport == [location |-> "", phase |-> NoPhase, rise_set |-> NoRiseSet]

\* the _initialize_skyfield of a get_moon_rise_set call that was not made
NotCalled(h) == [handle |-> h, ret |-> FALSE, attempted |-> FALSE, raised |-> FALSE]

calculate_visibility_for_latvia(h, d1, d2, o1, o2, n, e, alt) ==
    {IF p.raised
     THEN [phase_call |-> p.init, rise_set_call |-> NotCalled(p.init.handle),
           handle |-> p.init.handle, phase_date |-> d1, rise_set_date |-> d1,
           attempts |-> IF p.init.attempted THEN 1 ELSE 0,
           raised |-> TRUE, observer |-> Riga, result |-> NoReport]
     ELSE LET r == get_moon_rise_set(p.init.handle, d2, o2,
                                     IF p.init.attempted THEN n + 1 ELSE n, alt)
          IN  [phase_call |-> p.init, rise_set_call |-> r.init,
               handle |-> r.init.handle, phase_date |-> d1, rise_set_date |-> d2,
               attempts |-> (IF p.init.attempted THEN 1 ELSE 0)
                            + (IF r.init.attempted THEN 1 ELSE 0),
               raised |-> r.raised, observer |-> Riga,
               result |-> IF r.raised THEN NoReport
                          ELSE [location |-> "Riga, Latvia", phase |-> p.result,
                                rise_set |-> r.result]] :
        p \in get_moon_phase(h, d1, o1, n, e)}

(***************************************************************************)
(* The inputs tried.                                                       *)
(***************************************************************************)
\* half a cycle: 21262.0238424 minutes
HalfCycle == <<CycleLength[1] \div 2, CycleLength[2] \div 2>>

\* a sixteenth of the cycle, 22.5 degrees of elongation, is a whole number of
\* time units
SixteenthCycle ==
    <<CycleLength[1] \div 16,
      ((CycleLength[1] % 16) * MinuteUnits + CycleLength[2]) \div 16>>

\* timestamps: whole days around the epoch, the whole cycles from one cycle
\* before to two cycles after it, half a cycle, one and three sixteenths of a
\* cycle, and the last whole minute of the first cycle
Dates ==
    {<<(24 * 60) * d, 0>> : d \in (0 - DaysBack)..DaysAhead}
    \cup {TimeMul(CycleLength, k) : k \in (0 - 1)..2}
    \cup {HalfCycle, SixteenthCycle, TimeMul(SixteenthCycle, 3), <<CycleLength[1], 0>>}

\* timestamps late in the evening: half a minute before the midnight of
\* 2000-01-16, ten minutes before that of 2000-02-09
LateDates ==
    {<<(24 * 60) * 10 - EpochMinuteOfDay - 1, MinuteUnits \div 2>>,
     <<(24 * 60) * 34 - EpochMinuteOfDay - 10, 0>>}

\* separations the backend may report: multiples of 7.5 degrees, and 200 degrees
ElongationStep == 15 * HalfDegree

ElongationDomain ==
    {ElongationStep * i : i \in 0..MaxElongationIndex} \cup {200 * Degree}

\* a southern observer besides Riga
Locations == {Riga, <<0 - 338688, 1512093>>}

\* the sets of at most k elements of S
RECURSIVE SubsetsUpTo(_, _)
SubsetsUpTo(S, k) ==
    IF k = 0 THEN {{}}
    ELSE LET prev == SubsetsUpTo(S, k - 1)
         IN  prev \cup {s \cup {x} : s \in prev, x \in S}

\* 24 hourly altitudes in degrees: below the horizon is -1, at or above it is
\* level (0: exactly on the horizon, 1: above); the Moon starts the day below
\* the horizon iff startsBelow and changes side at the hours in changes
AltitudeTable(startsBelow, changes, level) ==
    [i \in 1..Hours |->
        LET flips == Cardinality({c \in changes : c <= i - 1})
            below == IF flips % 2 = 0 THEN startsBelow ELSE ~startsBelow
        IN  IF below THEN 0 - 1 ELSE level]

\* the hours at which a table with several sign changes may change sign: the
\* first two, two at mid-day and the last two
CrossingHours == {1, 2, 12, 13, Hours - 2, Hours - 1}

\* one sign change at any hour, or up to MaxCrossings of them at CrossingHours
AltitudeTables ==
    {AltitudeTable(b, c, l) :
        b \in BOOLEAN,
        c \in SubsetsUpTo(1..(Hours - 1), 1) \cup SubsetsUpTo(CrossingHours, MaxCrossings),
        l \in 0..1}

\* below the horizon for hours 0-11, above it for hours 12-23
DefaultAltitude == AltitudeTable(TRUE, {12}, 1)

RiseSetDates == {<<(24 * 60) * d, 0>> : d \in 0..MaxDay}

(***************************************************************************)
(* State.                                                                  *)
(***************************************************************************)
\* the value of visibility before any calculate_visibility_for_latvia call
NoVisibility ==
    [observer |-> <<0, 0>>, phase_available |-> FALSE, rise_set_available |-> FALSE,
     phase_date |-> <<0, 0>>, rise_set_date |-> <<0, 0>>, result |-> NoReport]

\* the value of next_full_moon before any get_next_full_moon call
NoFullMoon == [returned |-> Absent, paths |-> {}]

\* a thread that is not inside register_user
Idle ==
    [pc |-> "idle", email |-> "", username |-> "", password |-> "",
     ret |-> "none", started |-> 0, refused |-> FALSE]

\* a thread that is not inside ensure_events_available and has not been
NoSeeding ==
    [pc |-> "idle", neo_data |-> <<>>, i |-> 0, was_empty |-> FALSE,
     fetched |-> FALSE, raised |-> FALSE]

NoCall ==
    [op |-> "none", source |-> "ok", cached |-> FALSE, attempted |-> FALSE,
     available |-> FALSE, raised |-> FALSE, path |-> "none"]

InitCommon ==
    /\ ts = None /\ earth = None /\ moon = None /\ sun = None
    /\ loads = 0
    /\ call = NoCall
    /\ phase_result = NoPhase
    /\ rise_set_result = NoRiseSet
    /\ pc = [t \in Threads |-> "idle"]
    /\ ephemeris = [t \in Threads |-> None]
    /\ ret = [t \in Threads |-> FALSE]
    /\ ncalls = [t \in Threads |-> 0]
    /\ visibility = NoVisibility
    /\ next_full_moon = NoFullMoon
    /\ users = <<>>
    /\ reg = [t \in Threads |-> Idle]
    /\ events = EmptyBag
    /\ seeding = [t \in Threads |-> NoSeeding]
    /\ overlapped = FALSE

\* the phase inputs vary: every timestamp (the fallback reads nothing else)
\* and every separation (the ephemeris path reads nothing else)
Init ==
    /\ InitCommon
    /\ \/ date \in Dates /\ elongation = 0
       \/ date = <<0, 0>> /\ elongation \in ElongationDomain
    /\ location \in Locations
    /\ altitude = DefaultAltitude

\* calculate_visibility_for_latvia is also called late in the evening; it
\* does not read the caller's location, and it is tried with the separations
\* that are multiples of 30 degrees
InitVisibility ==
    /\ InitCommon
    /\ \/ date \in Dates \cup LateDates /\ elongation = 0
       \/ date = <<0, 0>> /\ elongation \in ElongationDomain
                          /\ elongation % (4 * ElongationStep) = 0
    /\ location = Riga
    /\ altitude = DefaultAltitude

\* the search does not read the observer; it is tried from the timestamps of
\* whole minutes and the separations that are multiples of 30 degrees
InitFullMoon ==
    /\ Init
    /\ location = Riga
    /\ date[2] = 0
    /\ elongation % (4 * ElongationStep) = 0

\* the altitude tables vary
InitRiseSet ==
    /\ InitCommon
    /\ date \in RiseSetDates
    /\ location = Riga
    /\ elongation = 0
    /\ altitude \in AltitudeTables

InitThreads ==
    /\ InitCommon
    /\ date = <<0, 0>>
    /\ location = Riga
    /\ elongation = 0
    /\ altitude = DefaultAltitude

(***************************************************************************)
(* Calls that run to completion (one caller at a time).                    *)
(***************************************************************************)
\* the cached objects, the load count and the record of the call's
\* _initialize_skyfield after a call whose _initialize_skyfield went as init
Acquire(init, op, o, raised, path) ==
    /\ init.attempted => loads < MaxLoads
    /\ ts' = init.handle.ts
    /\ earth' = init.handle.earth
    /\ moon' = init.handle.moon
    /\ sun' = init.handle.sun
    /\ loads' = IF init.attempted THEN loads + 1 ELSE loads
    /\ call' = [op |-> op, source |-> o, cached |-> AllSet(Handle),
                attempted |-> init.attempted, available |-> init.ret,
                raised |-> raised, path |-> path]

CallInitializeSkyfield ==
    \E o \in LoadOutcomes :
        /\ LET init == initialize_skyfield(Handle, o, loads + 1)
           IN  Acquire(init, "initialize_skyfield", o, init.raised, "none")
        /\ phase_result' = NoPhase
        /\ rise_set_result' = NoRiseSet
        /\ UNCHANGED <<date, location, elongation, altitude, pc, ephemeris, ret, ncalls>>
        /\ UNCHANGED others

CallGetMoonPhase ==
    \E o \in LoadOutcomes :
        \E r \in get_moon_phase(Handle, date, o, loads + 1, elongation) :
            /\ Acquire(r.init, "get_moon_phase", o, r.raised, r.path)
            /\ phase_result' = r.result
            /\ rise_set_result' = NoRiseSet
            /\ UNCHANGED <<date, location, elongation, altitude,
                           pc, ephemeris, ret, ncalls>>
            /\ UNCHANGED others

CallGetMoonRiseSet ==
    \E o \in LoadOutcomes :
        LET r == get_moon_rise_set(Handle, date, o, loads + 1, altitude)
        IN  /\ Acquire(r.init, "get_moon_rise_set", o, r.raised, r.path)
            /\ rise_set_result' = r.result
            /\ phase_result' = NoPhase
            /\ UNCHANGED <<date, location, elongation, altitude,
                           pc, ephemeris, ret, ncalls>>
            /\ UNCHANGED others

\* the time that passes between the two clock reads of one
\* calculate_visibility_for_latvia call, with a load between them: less than
\* the clock shows, a minute, twenty minutes
ClockAdvances == {<<0, 0>>, <<1, 0>>, <<20, 0>>}

\* date is the clock at the first read
CallCalculateVisibility ==
    \E o1 \in LoadOutcomes, o2 \in LoadOutcomes, advance \in ClockAdvances :
        \E v \in calculate_visibility_for_latvia(Handle, date, TimeAdd(date, advance),
                                                  o1, o2, loads + 1,
                                                  elongation, altitude) :
            /\ loads + v.attempts <= MaxLoads
            /\ ts' = v.handle.ts
            /\ earth' = v.handle.earth
            /\ moon' = v.handle.moon
            /\ sun' = v.handle.sun
            /\ loads' = loads + v.attempts
            /\ call' = [op |-> "calculate_visibility_for_latvia", source |-> o2,
                        cached |-> AllSet(Handle),
                        attempted |-> v.attempts > 0,
                        available |-> v.rise_set_call.ret,
                        raised |-> v.raised, path |-> "none"]
            /\ visibility' = [observer |-> v.observer,
                              phase_available |-> v.phase_call.ret,
                              rise_set_available |-> v.rise_set_call.ret,
                              phase_date |-> v.phase_date,
                              rise_set_date |-> v.rise_set_date,
                              result |-> v.result]
            /\ phase_result' = NoPhase
            /\ rise_set_result' = NoRiseSet
            /\ UNCHANGED <<date, location, elongation, altitude,
                           pc, ephemeris, ret, ncalls>>
            /\ UNCHANGED <<next_full_moon, users, reg, events, seeding, overlapped>>

\* what the data source does during a search: it answers from the start, or
\* does o for the first iteration only, or for all of them
SearchOutcomes ==
    {<<"ok", 0>>} \cup ((LoadOutcomes \ {"ok"}) \X {1, SearchDays})

CallGetNextFullMoon ==
    \E oj \in SearchOutcomes :
        \E s \in LET o == oj[1]
                     j == oj[2]
                 IN  get_next_full_moon(Handle, date, o, j, loads, elongation) :
            /\ s.loads > loads => loads < MaxLoads
            /\ ts' = s.handle.ts
            /\ earth' = s.handle.earth
            /\ moon' = s.handle.moon
            /\ sun' = s.handle.sun
            /\ loads' = s.loads
            /\ call' = [op |-> "get_next_full_moon", source |-> oj[1],
                        cached |-> AllSet(Handle), attempted |-> s.loads > loads,
                        available |-> AllSet(s.handle), raised |-> s.raised,
                        path |-> "none"]
            /\ next_full_moon' = [returned |-> s.returned, paths |-> s.paths]
            /\ phase_result' = NoPhase
            /\ rise_set_result' = NoRiseSet
            /\ UNCHANGED <<date, location, elongation, altitude,
                           pc, ephemeris, ret, ncalls>>
            /\ UNCHANGED <<visibility, users, reg, events, seeding, overlapped>>

Next == CallInitializeSkyfield \/ CallGetMoonPhase \/ CallGetMoonRiseSet

Spec == Init /\ [][Next]_vars

SpecRiseSet == InitRiseSet /\ [][Next]_vars

NextVisibility == CallInitializeSkyfield \/ CallCalculateVisibility

SpecVisibility == InitVisibility /\ [][NextVisibility]_vars

NextFullMoon == CallInitializeSkyfield \/ CallGetNextFullMoon

SpecFullMoon == InitFullMoon /\ [][NextFullMoon]_vars

(***************************************************************************)
(* _initialize_skyfield statement by statement, for threads that call it   *)
(* at the same time (Flask's development server handles each request in a  *)
(* thread of its own).                                                     *)
(***************************************************************************)
Goto(t, label) == pc' = [pc EXCEPT ![t] = label]

UnchangedInputs ==
    UNCHANGED <<date, location, elongation, altitude, call, phase_result, rise_set_result,
                others>>

\* the call begins
Enter(t) ==
    /\ pc[t] = "idle"
    /\ ncalls[t] < MaxCalls
    /\ ncalls' = [ncalls EXCEPT ![t] = @ + 1]
    /\ ephemeris' = [ephemeris EXCEPT ![t] = None]
    /\ Goto(t, "check")
    /\ UNCHANGED <<ts, earth, moon, sun, loads, ret>>
    /\ UnchangedInputs

\* astronomy.py:32-33
CheckCached(t) ==
    /\ pc[t] = "check"
    /\ IF AllSet(Handle)
       THEN ret' = [ret EXCEPT ![t] = TRUE] /\ Goto(t, "returned")
       ELSE ret' = ret /\ Goto(t, "load_ephemeris")
    /\ UNCHANGED <<ts, earth, moon, sun, loads, ephemeris, ncalls>>
    /\ UnchangedInputs

\* astronomy.py:36, with the except clause of lines 45-46: an OSError makes
\* the call return False, any other exception leaves the call
LoadEphemeris(t) ==
    /\ pc[t] = "load_ephemeris"
    /\ loads < MaxLoads
    /\ loads' = loads + 1
    /\ \E outcome \in {"ok", "fail_ephemeris", "raise_ephemeris"} :
        IF outcome = "ok"
        THEN /\ ephemeris' = [ephemeris EXCEPT ![t] = loads + 1]
             /\ Goto(t, "set_earth")
             /\ ret' = ret
        ELSE /\ ephemeris' = ephemeris
             /\ ret' = [ret EXCEPT ![t] = FALSE]
             /\ Goto(t, IF outcome = "raise_ephemeris" THEN "raised" ELSE "returned")
    /\ UNCHANGED <<ts, earth, moon, sun, ncalls>>
    /\ UnchangedInputs

\* astronomy.py:38
SetEarth(t) ==
    /\ pc[t] = "set_earth"
    /\ earth' = ephemeris[t]
    /\ Goto(t, "set_moon")
    /\ UNCHANGED <<ts, moon, sun, loads, ephemeris, ret, ncalls>>
    /\ UnchangedInputs

\* astronomy.py:39
SetMoon(t) ==
    /\ pc[t] = "set_moon"
    /\ moon' = ephemeris[t]
    /\ Goto(t, "set_sun")
    /\ UNCHANGED <<ts, earth, sun, loads, ephemeris, ret, ncalls>>
    /\ UnchangedInputs

\* astronomy.py:40
SetSun(t) ==
    /\ pc[t] = "set_sun"
    /\ sun' = ephemeris[t]
    /\ Goto(t, "load_timescale")
    /\ UNCHANGED <<ts, earth, moon, loads, ephemeris, ret, ncalls>>
    /\ UnchangedInputs

\* astronomy.py:41-43, with the except clause of lines 45-46: an OSError makes
\* the call return False, any other exception leaves the call; earth, moon
\* and sun stay assigned either way
LoadTimescale(t) ==
    /\ pc[t] = "load_timescale"
    /\ \E outcome \in {"ok", "fail_timescale", "raise_timescale"} :
        IF outcome = "ok"
        THEN /\ ts' = ephemeris[t]
             /\ ret' = [ret EXCEPT ![t] = TRUE]
             /\ Goto(t, "returned")
        ELSE /\ ts' = ts
             /\ ret' = [ret EXCEPT ![t] = FALSE]
             /\ Goto(t, IF outcome = "raise_timescale" THEN "raised" ELSE "returned")
    /\ UNCHANGED <<earth, moon, sun, loads, ephemeris, ncalls>>
    /\ UnchangedInputs

\* the caller has the return value, or the exception, and goes on
Leave(t) ==
    /\ pc[t] \in {"returned", "raised"}
    /\ Goto(t, "idle")
    /\ UNCHANGED <<ts, earth, moon, sun, loads, ephemeris, ret, ncalls>>
    /\ UnchangedInputs

NextThreads ==
    \E t \in Threads :
        \/ Enter(t) \/ CheckCached(t) \/ LoadEphemeris(t) \/ SetEarth(t)
        \/ SetMoon(t) \/ SetSun(t) \/ LoadTimescale(t) \/ Leave(t)

SpecThreads == InitThreads /\ [][NextThreads]_vars

(***************************************************************************)
(* Properties.                                                             *)
(***************************************************************************)

(***************************************************************************)
(* register_user (auth.py:40-58) over the users table (models.py:17-49).   *)
(* Each request thread runs it; the two database round trips, the select   *)
(* of find_by_email and the insert of create, are the atomic steps.  A     *)
(* round trip may raise, and then the call raises.                         *)
(***************************************************************************)
MaxRegistrations == 3

Emails == {"a@example.org", "b@example.org"}

Usernames == {"ann", "bob"}

Passwords == {"secret"}

\* the salts bcrypt.gensalt() may draw
Salts == {"salt1", "salt2"}

\* auth.py:11-23: the bcrypt hash of the password under a fresh salt; the
\* string holds the salt and differs from call to call
hash_password(password, salt) == <<"bcrypt", salt, password>>

\* what a database round trip does: execute() returns the response, or raises
\* (the table refuses the row, the request fails); no caller handles that
DatabaseOutcomes == {"done", "error"}

\* an insert can also raise after the row was written (the response is lost)
InsertOutcomes == DatabaseOutcomes \cup {"written_error"}

\* models.py:35-49: what the call can return, the row the select lists first
\* (the select has no order) or none (the empty sequence)
User_find_by_email(store, email) ==
    LET Matches(row) == row.email = email
        data == SelectSeq(store, Matches)
    IN  IF Len(data) > 0 THEN {<<data[i]>> : i \in 1..Len(data)} ELSE {<<>>}

\* models.py:17-32: the table after the insert, and whether execute() raised
User_create(store, email, username, password_hash, outcome) ==
    IF outcome = "error"
    THEN [store |-> store, raised |-> TRUE]
    ELSE [store |-> Append(store, [email |-> email, username |-> username,
                                   password_hash |-> password_hash]),
          raised |-> outcome = "written_error"]

UnchangedAstronomy ==
    UNCHANGED <<ts, earth, moon, sun, loads, date, location, elongation, altitude,
                call, phase_result, rise_set_result, pc, ephemeris, ret, ncalls,
                visibility, next_full_moon>>

\* the view calls register_user (pages.py:63-91)
RegisterCall(t) ==
    /\ reg[t].pc = "idle"
    /\ reg[1].started + reg[2].started < MaxRegistrations
    /\ \E email \in Emails, username \in Usernames, password \in Passwords :
           reg' = [reg EXCEPT ![t] =
                       [pc |-> "find_by_email", email |-> email,
                        username |-> username, password |-> password,
                        ret |-> "none", started |-> @.started + 1,
                        refused |-> @.refused]]
    /\ UNCHANGED <<users, events, seeding, overlapped>>
    /\ UnchangedAstronomy

\* auth.py:47-50
RegisterFindByEmail(t) ==
    /\ reg[t].pc = "find_by_email"
    /\ \E outcome \in DatabaseOutcomes :
           IF outcome = "error"
           THEN reg' = [reg EXCEPT ![t].pc = "raised", ![t].ret = "raised"]
           ELSE \E existing_user \in User_find_by_email(users, reg[t].email) :
                    reg' = IF existing_user # <<>>
                           THEN [reg EXCEPT ![t].pc = "return", ![t].ret = "None"]
                           ELSE [reg EXCEPT ![t].pc = "create"]
    /\ UNCHANGED <<users, events, seeding, overlapped>>
    /\ UnchangedAstronomy

\* auth.py:53-56
RegisterCreate(t) ==
    /\ reg[t].pc = "create"
    /\ \E outcome \in InsertOutcomes, salt \in Salts :
           LET created == User_create(users, reg[t].email, reg[t].username,
                                      hash_password(reg[t].password, salt), outcome)
           IN  /\ users' = created.store
               /\ reg' = IF created.raised
                          THEN [reg EXCEPT ![t].pc = "raised", ![t].ret = "raised",
                                           ![t].refused = TRUE]
                          ELSE [reg EXCEPT ![t].pc = "return", ![t].ret = "user_data"]
    /\ UNCHANGED <<events, seeding, overlapped>>
    /\ UnchangedAstronomy

\* auth.py:50, 58: the view has the return value, or the exception
RegisterReturn(t) ==
    /\ reg[t].pc \in {"return", "raised"}
    /\ reg' = [reg EXCEPT ![t].pc = "idle"]
    /\ UNCHANGED <<users, events, seeding, overlapped>>
    /\ UnchangedAstronomy

NextRegister ==
    \E t \in Threads :
        \/ RegisterCall(t)
        \/ RegisterFindByEmail(t)
        \/ RegisterCreate(t)
        \/ RegisterReturn(t)

SpecRegister == InitThreads /\ [][NextRegister]_vars

(***************************************************************************)
(* ensure_events_available (event_loader.py:14-49) over the events table   *)
(* (models.py:90-120) and the feed of get_neo_feed (nasa.py:60-114).  Each *)
(* request thread runs it; the select of get_upcoming, the HTTP request of *)
(* get_neo_feed and each insert of create are steps of their own, with no  *)
(* lock or transaction around them.  A database round trip may raise.      *)
(***************************************************************************)
MAX_SEEDED_EVENTS == 20

MaxFeedLen == 21

\* event_loader.py:25-26: start_date .. start_date + 4 days
FeedDays == 5

Min(a, b) == IF a < b THEN a ELSE b

\* object i of a NASA payload; the hazardous objects are those whose number
\* is a multiple of every, none when every is 0
NeoObject(i, every) ==
    [name |-> <<"NEO", i>>, estimated_diameter_max |-> i,
     is_potentially_hazardous_asteroid |-> (every > 0 /\ i % every = 0),
     kilometers_per_hour |-> 1000 * i]

\* the objects 1..n of a payload listed under date key k: object i
\* approaches on day i mod FeedDays
ObjectsOn(k, n, every) ==
    LET count == Cardinality({i \in 1..n : i % FeedDays = k})
        start == IF k = 0 THEN FeedDays ELSE k
    IN  [j \in 1..count |-> NeoObject(start + FeedDays * (j - 1), every)]

\* the JSON object near_earth_objects of a response: its date keys in the
\* order the response lists them, from day first on, and the objects under
\* each
Payload(n, every, first) ==
    [keys |-> [j \in 1..FeedDays |-> (first + j - 1) % FeedDays],
     objects |-> [k \in 0..(FeedDays - 1) |-> ObjectsOn(k, n, every)]]

\* nasa.py:96-107, from the j-th date key on
RECURSIVE NeoList(_, _)
NeoList(near_earth_objects, j) ==
    IF j > Len(near_earth_objects.keys) THEN <<>>
    ELSE LET date_key == near_earth_objects.keys[j]
             objects_on_date == near_earth_objects.objects[date_key]
         IN  [o \in 1..Len(objects_on_date) |->
                 [name |-> objects_on_date[o].name, date |-> date_key,
                  diameter_km |-> objects_on_date[o].estimated_diameter_max,
                  is_hazardous |-> objects_on_date[o].is_potentially_hazardous_asteroid,
                  velocity_kph |-> objects_on_date[o].kilometers_per_hour]]
             \o NeoList(near_earth_objects, j + 1)

\* nasa.py:89-109: the list for a response that arrived
get_neo_feed(near_earth_objects) == NeoList(near_earth_objects, 1)

\* the numbers of objects tried
FeedLengths == {0, 2, MAX_SEEDED_EVENTS, MaxFeedLen}

\* what get_neo_feed can return: a list, empty on a request error
\* (nasa.py:110-114); every second object is hazardous, and the date keys
\* come in any rotation of their order
Feeds ==
    {get_neo_feed(Payload(n, 2, first)) :
        n \in FeedLengths, first \in 0..(FeedDays - 1)}

\* or an exception that is not a RequestException (nasa.py:89, 106)
FeedOutcomes ==
    {[raised |-> FALSE, neo_data |-> f] : f \in Feeds}
    \cup {[raised |-> TRUE, neo_data |-> <<>>]}

\* the rows of the earliest event_date
Earliest(store) ==
    {row \in BagToSet(store) :
        \A other \in BagToSet(store) : row.event_date <= other.event_date}

\* models.py:90-101: the lists the select can return, the first limit rows by
\* event_date with no date filter; the order of the rows of one date is the
\* database's choice
RECURSIVE Event_get_upcoming(_, _)
Event_get_upcoming(store, limit) ==
    IF limit = 0 \/ store = EmptyBag THEN {<<>>}
    ELSE UNION {{<<first>> \o rest :
                    rest \in Event_get_upcoming(store (-) SetToBag({first}), limit - 1)} :
                first \in Earliest(store)}

\* models.py:104-120: the table after the insert, and whether execute() raised
Event_create(store, title, description, event_date, event_type, outcome) ==
    IF outcome = "error"
    THEN [store |-> store, raised |-> TRUE]
    ELSE [store |-> store (+) SetToBag({[title |-> title, description |-> description,
                                         event_date |-> event_date,
                                         event_type |-> event_type]}),
          raised |-> outcome = "written_error"]

\* event_loader.py:33, neo_data[:MAX_SEEDED_EVENTS]
SeededEntries(neo_data) ==
    SubSeq(neo_data, 1, Min(MAX_SEEDED_EVENTS, Len(neo_data)))

\* a view calls ensure_events_available (pages.py:36, 150)
EnsureCall(t) ==
    /\ seeding[t].pc = "idle"
    /\ seeding' = [seeding EXCEPT ![t] = [NoSeeding EXCEPT !.pc = "get_upcoming"]]
    /\ overlapped' = (overlapped \/ \E u \in Threads \ {t} : seeding[u].pc # "idle")
    /\ UNCHANGED <<events, users, reg>>
    /\ UnchangedAstronomy

\* event_loader.py:20-23
EnsureGetUpcoming(t) ==
    /\ seeding[t].pc = "get_upcoming"
    /\ \E outcome \in DatabaseOutcomes :
           IF outcome = "error"
           THEN seeding' = [seeding EXCEPT ![t].pc = "raised", ![t].raised = TRUE]
           ELSE \E existing_events \in Event_get_upcoming(events, 1) :
                    seeding' = IF existing_events # <<>>
                               THEN [seeding EXCEPT ![t].pc = "return"]
                               ELSE [seeding EXCEPT ![t].pc = "get_neo_feed",
                                                    ![t].was_empty = TRUE]
    /\ UNCHANGED <<events, overlapped, users, reg>>
    /\ UnchangedAstronomy

\* event_loader.py:25-31
EnsureGetNeoFeed(t) ==
    /\ seeding[t].pc = "get_neo_feed"
    /\ \E outcome \in FeedOutcomes :
           seeding' = IF outcome.raised
                      THEN [seeding EXCEPT ![t].pc = "raised", ![t].fetched = TRUE,
                                           ![t].raised = TRUE]
                      ELSE [seeding EXCEPT ![t].pc = "create", ![t].fetched = TRUE,
                                           ![t].neo_data = outcome.neo_data]
    /\ UNCHANGED <<events, overlapped, users, reg>>
    /\ UnchangedAstronomy

\* event_loader.py:33-49: one pass of the loop, which an insert that raises
\* ends with the call, or the end of the loop
EnsureCreate(t) ==
    /\ seeding[t].pc = "create"
    /\ LET entries == SeededEntries(seeding[t].neo_data)
           i == seeding[t].i
       IN  IF i < Len(entries)
           THEN LET neo == entries[i + 1]
                    title == <<"NEO Close Approach: ", neo.name>>
                    hazard_label == IF neo.is_hazardous THEN "Potentially hazardous"
                                    ELSE "Not hazardous"
                    description == <<neo.diameter_km, neo.velocity_kph, hazard_label>>
                IN  \E outcome \in InsertOutcomes :
                        LET created == Event_create(events, title, description,
                                                    neo.date, "Near-Earth Object",
                                                    outcome)
                        IN  /\ events' = created.store
                            /\ seeding' = IF created.raised
                                          THEN [seeding EXCEPT ![t].pc = "raised",
                                                               ![t].raised = TRUE]
                                          ELSE [seeding EXCEPT ![t].i = i + 1]
           ELSE /\ events' = events
                /\ seeding' = [seeding EXCEPT ![t].pc = "return"]
    /\ UNCHANGED <<overlapped, users, reg>>
    /\ UnchangedAstronomy

\* the view has the return, or the exception, and goes on
EnsureReturn(t) ==
    /\ seeding[t].pc \in {"return", "raised"}
    /\ seeding' = [seeding EXCEPT ![t].pc = "idle", ![t].neo_data = <<>>]
    /\ UNCHANGED <<events, overlapped, users, reg>>
    /\ UnchangedAstronomy

NextEvents ==
    \E t \in Threads :
        \/ EnsureCall(t)
        \/ EnsureGetUpcoming(t)
        \/ EnsureGetNeoFeed(t)
        \/ EnsureCreate(t)
        \/ EnsureReturn(t)

SpecEvents == InitThreads /\ [][NextEvents]_vars

\* C1: get_moon_phase never raises and always returns a dictionary with a
\* phase_name (one of the eight), an illumination and a phase_angle, whatever
\* the timestamp, the state of the cached objects before the call and the
\* outcome of the load the call attempts.
C1_PhaseNeverRaises ==
    call.op = "get_moon_phase" =>
        /\ ~call.raised
        /\ DOMAIN phase_result = {"phase_name", "illumination", "phase_angle"}
        /\ phase_result.phase_name \in PhaseNames
        /\ phase_result.illumination \in Int
        /\ phase_result.phase_angle \in Int

\* the part of C1 that holds: a get_moon_phase call raises only when its load
\* fails with an exception that is not an OSError
C1_RaisesOnlyUncaught ==
    call.op = "get_moon_phase" =>
        /\ call.raised <=>
               (~call.cached /\ call.source \in {"raise_ephemeris", "raise_timescale"})
        /\ ~call.raised => phase_result.phase_name \in PhaseNames

\* C2: ts, earth, moon and sun are all set or all unset in every reachable
\* state.
C2_AllOrNothing == AllSet(Handle) \/ AllUnset(Handle)

\* C3: a call made while the handle is not fully set attempts the load again,
\* returns true exactly if that load succeeds, and does not raise.
C3_FailureNotCached ==
    (call.op # "none" /\ ~call.cached) =>
        /\ call.attempted
        /\ call.available = (call.source = "ok")
        /\ call.op = "initialize_skyfield" => ~call.raised

\* the part of C3 that holds: a load is attempted whenever the handle is not
\* fully set, and the call returns true exactly if that load succeeds
C3_Retried ==
    (call.op # "none" /\ ~call.cached) =>
        /\ call.attempted
        /\ call.available = (call.source = "ok")

\* C4: once a call has returned true (the handle is fully set), every later
\* call returns true, attempts no load and leaves ts, earth, moon and sun as
\* they are, whatever the data source would do.
C4_LoadedStaysLoaded ==
    [][(AllSet(Handle) \/ call.available) =>
          /\ ts' = ts /\ earth' = earth /\ moon' = moon /\ sun' = sun
          /\ loads' = loads
          /\ call'.available /\ ~call'.attempted]_vars

\* a call answered from the cache while the data source is unavailable
C4_Witness ==
    /\ call.cached /\ call.available /\ ~call.attempted
    /\ call.source = "fail_ephemeris"
    /\ AllSet(Handle)

\* thread t is inside its first call and has loaded the ephemeris in it
LoadedInFirstCall(t) == ncalls[t] = 1 /\ pc[t] # "idle" /\ ephemeris[t] # None

\* C5: of two threads whose first calls overlap at most one loads the
\* ephemeris and writes the handle, and no call returns true while one of
\* the four objects is unset.
C5_GuardedAcquisition ==
    /\ \A t1, t2 \in Threads : LoadedInFirstCall(t1) /\ LoadedInFirstCall(t2) => t1 = t2
    /\ \A t \in Threads : pc[t] = "returned" /\ ret[t] => AllSet(Handle)

\* C6: with the backend unavailable get_moon_rise_set returns None for both
\* moonrise and moonset, and get_moon_phase returns what
\* _fallback_moon_phase returns for the same timestamp.
C6_UnavailableResults ==
    /\ (call.op = "get_moon_rise_set" /\ ~call.available) =>
           /\ ~call.raised
           /\ rise_set_result = [moonrise |-> Absent, moonset |-> Absent]
    /\ (call.op = "get_moon_phase" /\ ~call.available) =>
           /\ ~call.raised
           /\ call.path = "fallback"
           /\ phase_result \in fallback_moon_phase(date)

\* the part of C6 that holds: the two results when the call does not raise
C6_UnavailableUnlessRaised ==
    /\ (call.op = "get_moon_rise_set" /\ ~call.available /\ ~call.raised) =>
           rise_set_result = [moonrise |-> Absent, moonset |-> Absent]
    /\ (call.op = "get_moon_phase" /\ ~call.available /\ ~call.raised) =>
           /\ call.path = "fallback"
           /\ phase_result \in fallback_moon_phase(date)

\* the hours h in 0..22 with a rise between hour h and hour h + 1
RiseHours == {h \in 0..(Hours - 2) : altitude[h + 1] < 0 /\ altitude[h + 2] >= 0}

\* the hours h in 0..22 with a set between hour h and hour h + 1
SetHours == {h \in 0..(Hours - 2) : altitude[h + 1] >= 0 /\ altitude[h + 2] < 0}

Greatest(S) == CHOOSE x \in S : \A y \in S : y <= x

\* C7: with the backend available, moonrise is the instant of hour h + 1 of
\* the requested day for the greatest rise hour h, None if there is none, and
\* moonset likewise for the greatest set hour.
C7_LastCrossingWins ==
    (call.op = "get_moon_rise_set" /\ call.available) =>
        /\ ~call.raised
        /\ rise_set_result.moonrise =
               IF RiseHours = {} THEN Absent
               ELSE <<DayOf(date), Greatest(RiseHours) + 1>>
        /\ rise_set_result.moonset =
               IF SetHours = {} THEN Absent
               ELSE <<DayOf(date), Greatest(SetHours) + 1>>

\* an available call over a day with two rises, on a day other than day 0
C7_Witness ==
    /\ call.op = "get_moon_rise_set" /\ call.available
    /\ Cardinality(RiseHours) = 2
    /\ DayOf(date) = 1
    /\ rise_set_result.moonrise # Absent /\ rise_set_result.moonset # Absent

\* C8: on the ephemeris path the illumination is 0 at elongation 0 and 100 at
\* elongation 180, and elongation 0 gives New Moon, 0.0, 0.0.
C8_PrimaryIlluminationEnds ==
    (call.op = "get_moon_phase" /\ call.path = "primary" /\ ~call.raised) =>
        /\ elongation = 0 =>
               phase_result = [phase_name |-> "New Moon", illumination |-> 0,
                               phase_angle |-> 0]
        /\ elongation = 180 * Degree => phase_result.illumination = 1000

PhaseLabels ==
    <<"New Moon", "Waxing Crescent", "First Quarter", "Waxing Gibbous",
      "Full Moon", "Waning Gibbous", "Last Quarter", "Waning Crescent">>

\* C9: on the ephemeris path, for an elongation in [0, 360) the phase_name is
\* the label of the left-closed 45-degree bin the elongation falls in, and
\* 200 degrees gives Full Moon.
C9_PrimaryBins ==
    (call.op = "get_moon_phase" /\ call.path = "primary" /\ ~call.raised
        /\ elongation < 360 * Degree) =>
        /\ phase_result.phase_name = PhaseLabels[(elongation \div (45 * Degree)) + 1]
        /\ elongation = 200 * Degree => phase_result.phase_name = "Full Moon"

\* the ephemeris path at a bin's left edge, 45 degrees
C9_Witness ==
    /\ call.op = "get_moon_phase" /\ call.path = "primary"
    /\ elongation = 45 * Degree
    /\ phase_result.phase_name = "Waxing Crescent"

\* x * k for 0 <= k < 10000
TimeMulWide(x, k) == TimeAdd(TimeMul(TimeMul(x, k \div 100), 100), TimeMul(x, k % 100))

\* the part of the cycle elapsed at timestamp d: d minus a whole number of cycles
Elapsed(d) ==
    CHOOSE r \in {TimeSub(d, TimeMul(CycleLength, k)) : k \in (0 - 3)..3} :
        r[1] >= 0 /\ ~TimeLeq(CycleLength, r)

\* the 22.5-degree marks 22.5, 67.5, ..., 337.5 that 360 * r / cycle has reached
MarksReached(r) ==
    {j \in {1, 3, 5, 7, 9, 11, 13, 15} :
        TimeLeq(TimeMul(CycleLength, j), TimeMul(r, 16))}

\* a tenths of a degree is 360 * r / cycle rounded to one decimal
IsCycleAngle(r, a) ==
    /\ a >= 0
    /\ a = 0 \/ TimeLeq(TimeMulWide(CycleLength, 2 * a - 1), TimeMulWide(r, 7200))
    /\ TimeLeq(TimeMulWide(r, 7200), TimeMulWide(CycleLength, 2 * a + 1))

\* r is exactly on one of the 22.5-degree marks
OnMark(r) ==
    \E j \in {1, 3, 5, 7, 9, 11, 13, 15} : TimeMul(r, 16) = TimeMul(CycleLength, j)

\* C10: on the fallback path the phase_angle is 360 times the elapsed
\* fraction of the 29.53058867-day cycle (to one decimal, a whole cycle
\* counting as 0 or 360), the phase_name is the label of the 45-degree bin
\* centred on a multiple of 45 that it falls in (exactly on a bin's edge the
\* double may lie in the bin below), the illumination is 0 at the epoch and
\* 100 half a cycle later, and one whole cycle after the epoch is a New Moon.
C10_FallbackModel ==
    (call.op = "get_moon_phase" /\ call.path = "fallback") =>
        LET r == Elapsed(date)
            bin == Cardinality(MarksReached(r))
        IN  /\ \/ IsCycleAngle(r, phase_result.phase_angle)
               \/ r = <<0, 0>> /\ phase_result.phase_angle = 3600
            /\ \/ phase_result.phase_name = PhaseLabels[(bin % 8) + 1]
               \/ OnMark(r) /\ phase_result.phase_name = PhaseLabels[bin]
            /\ date = <<0, 0>> => phase_result.illumination = 0
            /\ date = HalfCycle =>
                   phase_result.illumination = 1000 /\ phase_result.phase_angle = 1800
            /\ date = CycleLength => phase_result.phase_name = "New Moon"

\* the fallback answers for the timestamp one whole cycle after the epoch
C10_Witness ==
    /\ call.op = "get_moon_phase" /\ call.path = "fallback"
    /\ date = CycleLength
    /\ phase_result.phase_name = "New Moon" /\ phase_result.illumination = 0

\* C11: every dictionary get_moon_phase returns has an illumination in
\* [0, 100] and a phase_angle in [0, 360), 360 excluded.
C11_ResultRanges ==
    (call.op = "get_moon_phase" /\ ~call.raised) =>
        /\ phase_result.illumination \in 0..1000
        /\ phase_result.phase_angle \in 0..3599

\* the instant is an hour 1..23 of the requested day, found at a crossing of
\* the given kind between the hour before and that hour
ReportedAtCrossing(instant, hours) ==
    /\ Len(instant) = 2
    /\ instant[1] = DayOf(date)
    /\ instant[2] \in 1..(Hours - 1)
    /\ (instant[2] - 1) \in hours

\* C16: a moonrise or moonset that get_moon_rise_set returns is the instant
\* of one of the hours 1..23 of the requested day, reported for a crossing
\* inside that day's 24 samples (so hour 23 is reported only for a crossing
\* between hours 22 and 23, and nothing is reported for a crossing after hour
\* 23); moonrise and moonset, when both present, differ.
C16_InstantsWithinDay ==
    call.op = "get_moon_rise_set" =>
        /\ rise_set_result.moonrise = Absent
               \/ ReportedAtCrossing(rise_set_result.moonrise, RiseHours)
        /\ rise_set_result.moonset = Absent
               \/ ReportedAtCrossing(rise_set_result.moonset, SetHours)
        /\ rise_set_result.moonrise # Absent =>
               rise_set_result.moonrise # rise_set_result.moonset

\* a day whose samples rise at hour 1 and set at hour 23: both ends of the
\* range of reported hours, on a day other than day 0
C16_Witness ==
    /\ call.op = "get_moon_rise_set" /\ call.available
    /\ rise_set_result.moonrise = <<1, 1>>
    /\ rise_set_result.moonset = <<1, Hours - 1>>

\* what the scan returns for the altitude table and the day of timestamp d
ExpectedRiseSetOn(d) ==
    [moonrise |-> IF RiseHours = {} THEN Absent
                  ELSE <<DayOf(d), Greatest(RiseHours) + 1>>,
     moonset |-> IF SetHours = {} THEN Absent
                 ELSE <<DayOf(d), Greatest(SetHours) + 1>>]

ExpectedRiseSet == ExpectedRiseSetOn(date)

\* what calculate_visibility_for_latvia returns when it returns
VisibilityComposed ==
    /\ visibility.result.location = "Riga, Latvia"
    /\ visibility.observer = <<569496, 241052>>
    /\ IF visibility.phase_available
       THEN visibility.result.phase = PrimaryResult(elongation)
       ELSE visibility.result.phase \in fallback_moon_phase(date)
    /\ visibility.result.rise_set =
           IF visibility.rise_set_available THEN ExpectedRiseSet ELSE NoRiseSet

\* the same, each sub-call's result taken for the time that sub-call read
\* from the clock
VisibilityComposedPerRead ==
    /\ visibility.result.location = "Riga, Latvia"
    /\ visibility.observer = <<569496, 241052>>
    /\ visibility.phase_date = date
    /\ TimeLeq(visibility.phase_date, visibility.rise_set_date)
    /\ IF visibility.phase_available
       THEN visibility.result.phase = PrimaryResult(elongation)
       ELSE visibility.result.phase \in fallback_moon_phase(visibility.phase_date)
    /\ visibility.result.rise_set =
           IF visibility.rise_set_available
           THEN ExpectedRiseSetOn(visibility.rise_set_date)
           ELSE NoRiseSet

\* C12: calculate_visibility_for_latvia does not raise and returns location
\* "Riga, Latvia", the phase get_moon_phase gives for the current time and
\* the rise and set get_moon_rise_set gives for 56.9496, 24.1052 and the
\* current day, each by the availability its own acquisition found.
C12_VisibilityComposition ==
    call.op = "calculate_visibility_for_latvia" =>
        ~call.raised /\ VisibilityComposed

\* the part of C12 that holds: whenever neither sub-call raised the result
\* is composed of the phase for the time get_moon_phase read and the rise
\* and set for the day get_moon_rise_set read afterwards, also when the load
\* failed for the phase and succeeded afterwards
C12_ComposedUnlessRaised ==
    (call.op = "calculate_visibility_for_latvia" /\ ~call.raised) =>
        VisibilityComposedPerRead

\* a call that did not raise returned the phase of one day and the rise and
\* set of the next: midnight passed between its two clock reads
C12_AcrossMidnight ==
    /\ call.op = "calculate_visibility_for_latvia" /\ ~call.raised
    /\ visibility.rise_set_available
    /\ DayOf(visibility.rise_set_date) = DayOf(visibility.phase_date) + 1
    /\ visibility.result.rise_set.moonrise[1] = DayOf(date) + 1

\* C13: get_next_full_moon returns a datetime: on the primary and on the
\* fallback phase path one of the dates now + 0..29 days has phase_name
\* "Full Moon" with illumination > 99, and it is returned rather than None.
C13_FullMoonFound ==
    (call.op = "get_next_full_moon" /\ ~call.raised) =>
        next_full_moon.returned # Absent

\* the part of C13 on the fallback path: a date is found when every
\* get_moon_phase call of the search fell back
C13_FallbackFinds ==
    (call.op = "get_next_full_moon" /\ next_full_moon.paths = {"fallback"}) =>
        /\ next_full_moon.returned # Absent
        /\ \E k \in 0..(SearchDays - 1) :
               next_full_moon.returned = TimeAdd(date, <<(24 * 60) * k, 0>>)

\* C14: register_user returns None and leaves the users store unchanged when
\* the email exists and otherwise inserts one user, so after any calls, also
\* two for one email whose lookup and insert interleave, the store holds at
\* most one user per email, as long as the store has refused no insert.
C14_OneUserPerEmail ==
    (\A t \in Threads : ~reg[t].refused) =>
        \A i \in 1..Len(users), j \in 1..Len(users) :
            users[i].email = users[j].email => i = j

\* the part of C14 on one call: no insert follows a lookup that found the
\* email, a call that returns None has inserted nothing, a call that returns
\* user data has inserted one user, and a call that raises has inserted at
\* most that user
C14_ExistingEmailRefused ==
    [][\A t \in Threads :
          /\ (reg[t].pc = "find_by_email" /\ reg'[t].pc = "return") =>
                 /\ \E row \in 1..Len(users) : users[row].email = reg[t].email
                 /\ reg'[t].ret = "None" /\ users' = users
          /\ (reg[t].pc = "find_by_email" /\ reg'[t].pc = "create") =>
                 /\ \A row \in 1..Len(users) : users[row].email # reg[t].email
                 /\ users' = users
          /\ (reg[t].pc = "create" /\ reg'[t].pc = "return") =>
                 /\ Len(users') = Len(users) + 1
                 /\ users'[Len(users')].email = reg[t].email
          /\ (reg[t].pc = "find_by_email" /\ reg'[t].pc = "raised") =>
                 users' = users
          /\ (reg[t].pc = "create" /\ reg'[t].pc = "raised") =>
                 \/ users' = users
                 \/ /\ Len(users') = Len(users) + 1
                    /\ users'[Len(users')].email = reg[t].email]_vars

\* the event ensure_events_available builds from a feed entry
EventFor(neo) ==
    [title |-> <<"NEO Close Approach: ", neo.name>>,
     description |-> <<neo.diameter_km, neo.velocity_kph,
                       IF neo.is_hazardous THEN "Potentially hazardous"
                       ELSE "Not hazardous">>,
     event_date |-> neo.date, event_type |-> "Near-Earth Object"]

\* the table holds no event twice and no two events of one title
SeededOnce ==
    \A row \in BagToSet(events) :
        /\ CopiesIn(row, events) = 1
        /\ \A other \in BagToSet(events) : other.title = row.title => other = row

\* the events of the entries a call seeds from the feed it fetched
EventsOf(neo_data) ==
    SetToBag({EventFor(neo_data[k]) :
                 k \in 1..(IF Len(neo_data) < 20 THEN Len(neo_data) ELSE 20)})

\* what holds of every state while no two calls have run at once
SequentialSeeding ==
    /\ SeededOnce
    /\ BagCardinality(events) <= 20
    /\ \A t \in Threads :
           seeding[t].i > 0 => (seeding[t].was_empty /\ seeding[t].fetched)

\* a call that found the table empty and has ended, with the return or with
\* an exception, has inserted the event of each of the first 20 entries of
\* the feed it fetched, and nothing when it fetched no entries
SeededAsFetched ==
    \A t \in Threads :
        (seeding[t].pc \in {"return", "raised"} /\ seeding[t].was_empty) =>
            events = EventsOf(seeding[t].neo_data)

\* the same of the calls that return
SeededAsFetchedOnReturn ==
    \A t \in Threads :
        (seeding[t].pc = "return" /\ seeding[t].was_empty) =>
            events = EventsOf(seeding[t].neo_data)

\* what holds of every step of a call, alone or beside another call: the
\* select decides, and the table changes only by the insert of the event of
\* the next of the first 20 feed entries
SeedingStep ==
    /\ events' # events =>
           \E t \in Threads :
               /\ seeding[t].pc = "create"
               /\ seeding[t].i < 20
               /\ seeding[t].i < Len(seeding[t].neo_data)
               /\ events' = events (+) SetToBag({EventFor(seeding[t].neo_data[seeding[t].i + 1])})
    /\ \A t \in Threads :
        /\ (seeding[t].pc = "get_upcoming" /\ seeding'[t].pc = "return") =>
               events # EmptyBag
        /\ (seeding[t].pc = "get_upcoming" /\ seeding'[t].pc = "get_neo_feed") =>
               events = EmptyBag
        /\ seeding'[t].i # seeding[t].i =>
               seeding'[t].i = 0 \/ BagCardinality(events') = BagCardinality(events) + 1

\* C15: ensure_events_available inserts nothing when the events table holds
\* an event; on an empty table it fetches the feed and inserts one event per
\* entry, at most 20; so while calls follow one another, once a call has
\* inserted an event no later call inserts any, and after a fetch with no
\* entries the table stays empty and the next call fetches again.
C15_SeedsOnlyEmptyTable ==
    /\ [](~overlapped => (SequentialSeeding /\ SeededAsFetched))
    /\ [][SeedingStep]_vars

\* the part of C15 that holds: the same of the calls that return; a call
\* that an insert ends with an exception leaves the table with the events of
\* some of the entries only, and no later call adds the rest
C15_SeedsUnlessRaised ==
    /\ [](~overlapped => (SequentialSeeding /\ SeededAsFetchedOnReturn))
    /\ [][SeedingStep]_vars

\* a call on the empty table that fetched two entries has raised in its
\* second insert and left one event
C15_PartlySeeded ==
    \E t \in Threads :
        /\ ~overlapped
        /\ seeding[t].pc = "raised" /\ seeding[t].i = 1
        /\ Len(seeding[t].neo_data) = 2
        /\ BagCardinality(events) = 1

\* a feed of more than 20 entries was seeded into the empty table, and a
\* later call has found the table seeded and returned without fetching
C15_Witness ==
    /\ ~overlapped
    /\ BagCardinality(events) = 20
    /\ seeding[1].pc = "idle" /\ seeding[1].i = 20
    /\ seeding[2].pc = "return" /\ ~seeding[2].was_empty /\ ~seeding[2].fetched

\* when two calls run at once both can find the table empty and both seed it
EventsSeededTwice == overlapped /\ ~SeededOnce

====
